---------------------------- MODULE Spec2Model ----------------------------
(***************************************************************************)
(* A model of the cocobase_client package: the Record wrapper of           *)
(* record.py with its typed getters, and the CocoBaseClient of client.py   *)
(* with its request dispatch and its status handling.                      *)
(*                                                                         *)
(* Python values are tagged records ([t |-> "int", n |-> 3]); a Python str *)
(* is a sequence of one-character strings, so that strip(), lower() and    *)
(* the int()/float() parsers are computed character by character.  A dict  *)
(* is a function whose DOMAIN is its key set.  A call's result is an       *)
(* outcome: a returned value or a raised exception.                        *)
(***************************************************************************)
EXTENDS Integers, Sequences, FiniteSets, TLC

VARIABLES
    client,     \* the CocoBaseClient: [api_key, token]
    rec,        \* the Record the caller holds, or NoRecord
    blob,       \* the document JSON that Record was constructed from, as received
    issued,     \* number of HTTP requests issued since construction
    last        \* the last call: operation, arguments, requests sent, response, outcome

vars == <<client, rec, blob, issued, last>>

----------------------------------------------------------------------------
(* Bounds of the model *)

MaxInt == 2
MaxRequests == 2

----------------------------------------------------------------------------
(* Python values *)

None == [t |-> "null"]
BoolV(b) == [t |-> "bool", b |-> b]
IntV(n) == [t |-> "int", n |-> n]
\* a finite float is m * 10^(-e); sp is "fin", "inf" or "nan"
FloatV(m, e) == [t |-> "float", sp |-> "fin", m |-> m, e |-> e]
SpecialFloat(sp) == [t |-> "float", sp |-> sp, m |-> 0, e |-> 0]
StrV(s) == [t |-> "str", s |-> s]
Nested == [t |-> "list"]

Return(v) == [kind |-> "return", val |-> v]
Raise(exc, msg) == [kind |-> "raise", exc |-> exc, msg |-> msg]

\* the builtin exceptions the conversions raise; all derive from Exception
ExceptionSubclasses == {"ValueError", "TypeError", "OverflowError"}

Ok(v) == [ok |-> TRUE, v |-> v]
Fail(exc) == [ok |-> FALSE, exc |-> exc]

----------------------------------------------------------------------------
(* str methods and the builtin conversions, as CPython computes them *)

UpperChars == <<"A","B","C","D","E","F","G","H","I","J","K","L","M",
                "N","O","P","Q","R","S","T","U","V","W","X","Y","Z">>
LowerChars == <<"a","b","c","d","e","f","g","h","i","j","k","l","m",
                "n","o","p","q","r","s","t","u","v","w","x","y","z">>
DigitChars == <<"0","1","2","3","4","5","6","7","8","9">>
Whitespace == {" ", "\t", "\n", "\r"}

LowerChar(c) ==
    IF \E i \in DOMAIN UpperChars : UpperChars[i] = c
    THEN LowerChars[CHOOSE i \in DOMAIN UpperChars : UpperChars[i] = c]
    ELSE c

lower(s) == [i \in DOMAIN s |-> LowerChar(s[i])]

RECURSIVE lstrip(_)
lstrip(s) ==
    IF s # <<>> /\ Head(s) \in Whitespace THEN lstrip(Tail(s)) ELSE s

RECURSIVE rstrip(_)
rstrip(s) ==
    IF s # <<>> /\ s[Len(s)] \in Whitespace
    THEN rstrip(SubSeq(s, 1, Len(s) - 1))
    ELSE s

strip(s) == rstrip(lstrip(s))

IsDigit(c) == \E i \in DOMAIN DigitChars : DigitChars[i] = c
DigitVal(c) == (CHOOSE i \in DOMAIN DigitChars : DigitChars[i] = c) - 1

\* a digit string of a numeric literal: digits, single underscores between them
IsDigitPart(s) ==
    /\ s # <<>>
    /\ IsDigit(s[1])
    /\ IsDigit(s[Len(s)])
    /\ \A i \in DOMAIN s : IsDigit(s[i]) \/ s[i] = "_"
    /\ \A i \in 1..(Len(s) - 1) : ~(s[i] = "_" /\ s[i + 1] = "_")

RECURSIVE DigitsValue(_, _)
DigitsValue(s, acc) ==
    IF s = <<>> THEN acc
    ELSE IF Head(s) = "_" THEN DigitsValue(Tail(s), acc)
    ELSE DigitsValue(Tail(s), 10 * acc + DigitVal(Head(s)))

RECURSIVE DigitCount(_)
DigitCount(s) ==
    IF s = <<>> THEN 0
    ELSE (IF Head(s) = "_" THEN 0 ELSE 1) + DigitCount(Tail(s))

HasSign(s) == s # <<>> /\ Head(s) \in {"+", "-"}
Unsigned(s) == IF HasSign(s) THEN Tail(s) ELSE s
SignOf(s) == IF s # <<>> /\ Head(s) = "-" THEN -1 ELSE 1

\* position of the first c in s, 0 when there is none
IndexOf(s, c) ==
    IF \E i \in DOMAIN s : s[i] = c
    THEN CHOOSE i \in DOMAIN s : s[i] = c /\ \A j \in 1..(i - 1) : s[j] # c
    ELSE 0

RECURSIVE Pow10(_)
Pow10(k) == IF k <= 0 THEN 1 ELSE 10 * Pow10(k - 1)

\* truncation toward zero of m * 10^(-e)
Trunc(m, e) ==
    IF e <= 0 THEN m * Pow10(-e)
    ELSE IF m >= 0 THEN m \div Pow10(e)
    ELSE -((-m) \div Pow10(e))

\* int(str): surrounding whitespace dropped, an optional sign, a digit string
IntOfStr(s) ==
    LET body == Unsigned(strip(s)) IN
    IF IsDigitPart(body)
    THEN Ok(IntV(SignOf(strip(s)) * DigitsValue(body, 0)))
    ELSE Fail("ValueError")

\* float(str): [sign] (inf | infinity | nan | digits [. [digits]] | . digits) [e [sign] digits]
FloatOfStr(s) ==
    LET t == strip(s)
        sgn == SignOf(t)
        u == lower(Unsigned(t))
        ePos == IndexOf(u, "e")
        mant == IF ePos = 0 THEN u ELSE SubSeq(u, 1, ePos - 1)
        expo == IF ePos = 0 THEN <<>> ELSE SubSeq(u, ePos + 1, Len(u))
        dot == IndexOf(mant, ".")
        ip == IF dot = 0 THEN mant ELSE SubSeq(mant, 1, dot - 1)
        fp == IF dot = 0 THEN <<>> ELSE SubSeq(mant, dot + 1, Len(mant))
        mantOk == /\ ip # <<>> \/ fp # <<>>
                  /\ ip = <<>> \/ IsDigitPart(ip)
                  /\ fp = <<>> \/ IsDigitPart(fp)
        expoOk == ePos = 0 \/ IsDigitPart(Unsigned(expo))
        x == IF ePos = 0 THEN 0 ELSE SignOf(expo) * DigitsValue(Unsigned(expo), 0)
    IN
    IF u \in {<<"i","n","f">>, <<"i","n","f","i","n","i","t","y">>}
    THEN Ok(SpecialFloat("inf"))
    ELSE IF u = <<"n","a","n">> THEN Ok(SpecialFloat("nan"))
    ELSE IF mantOk /\ expoOk
    THEN Ok(FloatV(sgn * DigitsValue(ip \o fp, 0), DigitCount(fp) - x))
    ELSE Fail("ValueError")

\* int(value)
int(v) ==
    CASE v.t = "bool" -> Ok(IntV(IF v.b THEN 1 ELSE 0))
      [] v.t = "int" -> Ok(v)
      [] v.t = "float" ->
            IF v.sp = "inf" THEN Fail("OverflowError")
            ELSE IF v.sp = "nan" THEN Fail("ValueError")
            ELSE Ok(IntV(Trunc(v.m, v.e)))
      [] v.t = "str" -> IntOfStr(v.s)
      [] OTHER -> Fail("TypeError")

\* float(value)
float(v) ==
    CASE v.t = "bool" -> Ok(FloatV(IF v.b THEN 1 ELSE 0, 0))
      [] v.t = "int" -> Ok(FloatV(v.n, 0))
      [] v.t = "float" -> Ok(v)
      [] v.t = "str" -> FloatOfStr(v.s)
      [] OTHER -> Fail("TypeError")

\* bool(value) of an int
bool(v) == BoolV(v.n # 0)


\* a dict is a function from its keys, tagged like every other value
DictV(d) == [t |-> "dict", d |-> d]
EmptyDict == DictV(<<>>)
\* dict.get(key, default) on a dict value
DictGet(dv, key, default) == IF key \in DOMAIN dv.d THEN dv.d[key] ELSE default

----------------------------------------------------------------------------
(* record.py: Record *)

NoRecord == [t |-> "norecord"]
NoBlob == [t |-> "noblob"]
NoResponse == [t |-> "noresponse"]

\* datetime.fromtimestamp(seconds)
fromtimestamp(seconds) == [t |-> "datetime", epoch |-> seconds.n]

\* Record.__init__ taking the fields from the "collection" key
Record_fields_from_collection(data) ==
    [t |-> "record",
     data |-> DictGet(data, "collection", EmptyDict),
     id |-> DictGet(data, "id", StrV(<<>>)),
     collectionId |-> DictGet(data, "collection_id", StrV(<<>>)),
     createdAt |-> fromtimestamp(DictGet(data, "created_at", IntV(0))),
     collection |-> DictGet(data, "collection", EmptyDict)]

\* Record.__init__(data)
Record(data) ==
    [t |-> "record",
     data |-> DictGet(data, "data", EmptyDict),
     id |-> DictGet(data, "id", StrV(<<>>)),
     collectionId |-> DictGet(data, "collection_id", StrV(<<>>)),
     createdAt |-> fromtimestamp(DictGet(data, "created_at", IntV(0))),
     collection |-> DictGet(data, "collection", EmptyDict)]

\* Record.get(key, default)
get(r, key, default) == Return(DictGet(r.data, key, default))

\* Record.__setitem__ setting the Record's own attribute instead of a field
setitem_on_attribute(r, key, value) == [r EXCEPT !.id = value]

\* Record.__setitem__(key, value): the Record after the call
setitem(r, key, value) ==
    [r EXCEPT !.data = DictV([k \in DOMAIN r.data.d \cup {key} |->
                                    IF k = key THEN value ELSE r.data.d[k]])]

\* Record.__delitem__(key): the Record after the call, and the outcome
delitem(r, key) ==
    IF key \in DOMAIN r.data.d
    THEN [rec |-> [r EXCEPT !.data = DictV([k \in DOMAIN r.data.d \ {key} |-> r.data.d[k]])],
          outcome |-> Return(None)]
    ELSE [rec |-> r, outcome |-> Raise("KeyError", <<key>>)]

ConversionError(what, key, value) ==
    Raise("TypeError", [what |-> what, key |-> key, value |-> value])

\* Record.get_int catching ValueError alone
get_int_catching_ValueError(r, key, raise_error) ==
    LET value == DictGet(r.data, key, None) IN
    IF value = None THEN Return(None)
    ELSE LET c == int(value) IN
         IF c.ok THEN Return(c.v)
         ELSE IF c.exc = "ValueError"
         THEN IF raise_error
              THEN ConversionError("not int-convertible", key, value)
              ELSE Return(None)
         ELSE Raise(c.exc, <<>>)

\* Record.get_int(key, raise_error)
get_int(r, key, raise_error) ==
    LET value == DictGet(r.data, key, None) IN
    IF value = None THEN Return(None)
    ELSE LET c == int(value) IN
         IF c.ok THEN Return(c.v)
         ELSE IF c.exc \in ExceptionSubclasses
         THEN IF raise_error
              THEN ConversionError("not int-convertible", key, value)
              ELSE Return(None)
         ELSE Raise(c.exc, <<>>)

\* Record.get_float(key, raise_error)
get_float(r, key, raise_error) ==
    LET value == DictGet(r.data, key, None) IN
    IF value = None THEN Return(None)
    ELSE LET c == float(value) IN
         IF c.ok THEN Return(c.v)
         ELSE IF c.exc \in ExceptionSubclasses
         THEN IF raise_error
              THEN ConversionError("not float-convertible", key, value)
              ELSE Return(None)
         ELSE Raise(c.exc, <<>>)

TrueWords == {<<"t","r","u","e">>, <<"1">>, <<"y","e","s">>}
FalseWords == {<<"f","a","l","s","e">>, <<"0">>, <<"n","o">>}

\* Record.get_bool(key, raise_error)
get_bool(r, key, raise_error) ==
    LET value == DictGet(r.data, key, None)
        val == lower(strip(value.s))
        c == int(value)
    IN
    IF value = None THEN Return(None)
    ELSE IF value.t = "bool" THEN Return(value)
    ELSE IF value.t = "str" /\ val \in TrueWords THEN Return(BoolV(TRUE))
    ELSE IF value.t = "str" /\ val \in FalseWords THEN Return(BoolV(FALSE))
    ELSE IF c.ok THEN Return(bool(c.v))
    ELSE IF c.exc \in ExceptionSubclasses
    THEN IF raise_error
         THEN ConversionError("not bool-convertible", key, value)
         ELSE Return(None)
    ELSE Raise(c.exc, <<>>)

----------------------------------------------------------------------------
(* The stored values and the documents the Record operations are run on *)

Keys == {"a", "b"}

StrSamples ==
    { <<"Y","E","S">>, <<"y","e","s">>, <<"T","r","u","e">>, <<"t","R","u","E">>,
      <<"1">>, <<"n","o">>, <<"F","A","L","S","E">>, <<"0">>,
      <<" ","y","e","s"," ">>, <<"\t","N","o","\n">>, <<"m","a","y","b","e">>,
      <<>>, <<"2">>, <<"-","1">>, <<"+","0">>, <<"0","0">>, <<"0",".","5">>,
      <<"1",".","0">>, <<"1","_","0">>, <<"1","_">>, <<"i","n","f">>, <<"N","a","N">>,
      <<"1","e","1">>, <<"5","e","-","1">>, <<" ","7"," ">>, <<".">>, <<"-">> }

Values ==
    {None, BoolV(TRUE), BoolV(FALSE), Nested,
     SpecialFloat("inf"), SpecialFloat("nan"),
     FloatV(0, 1), FloatV(5, 1), FloatV(-5, 1), FloatV(15, 1), FloatV(20, 1)}
    \cup {IntV(n) : n \in (-1)..MaxInt}
    \cup {StrV(s) : s \in StrSamples}

\* the values stored under the second key
FewValues == {None, IntV(1), StrV(<<"y","e","s">>)}

Dicts(vals) ==
    {DictV(d) : d \in {f \in UNION {[ks -> vals] : ks \in SUBSET Keys} :
                            "b" \in DOMAIN f => f["b"] \in FewValues}}

\* a document JSON: {id, collection_id?, created_at?, data?}
Document(hasCollectionId, hasCreatedAt, hasData, data) ==
    LET ks == {"id"}
              \cup (IF hasCollectionId THEN {"collection_id"} ELSE {})
              \cup (IF hasCreatedAt THEN {"created_at"} ELSE {})
              \cup (IF hasData THEN {"data"} ELSE {})
    IN DictV([k \in ks |->
                CASE k = "id" -> StrV(<<"d","1">>)
                  [] k = "collection_id" -> StrV(<<"c","1">>)
                  [] k = "created_at" -> IntV(1700000000)
                  [] k = "data" -> data])

Documents(vals) ==
    {Document(c, a, TRUE, d) : c \in BOOLEAN, a \in BOOLEAN, d \in Dicts(vals)}
    \cup {Document(c, a, FALSE, EmptyDict) : c \in BOOLEAN, a \in BOOLEAN}

Call(op, args, sent, resp, outcome) ==
    [op |-> op, args |-> args, sent |-> sent, resp |-> resp, outcome |-> outcome]

TheClient == [api_key |-> "key", token |-> None]

----------------------------------------------------------------------------
(* The Record operations on a freshly constructed Record *)

InitRecord ==
    /\ client = TheClient
    /\ blob \in Documents(Values)
    /\ rec = Record(blob)
    /\ issued = 0
    /\ last = Call("Record", [data |-> blob], <<>>, NoResponse, Return(None))

Get(key) ==
    /\ last' = Call("get", [key |-> key], <<>>, NoResponse, get(rec, key, None))
    /\ UNCHANGED <<client, rec, blob, issued>>

GetInt(key, raise_error) ==
    /\ last' = Call("get_int", [key |-> key, raise_error |-> raise_error], <<>>,
                    NoResponse, get_int(rec, key, raise_error))
    /\ UNCHANGED <<client, rec, blob, issued>>

GetFloat(key, raise_error) ==
    /\ last' = Call("get_float", [key |-> key, raise_error |-> raise_error], <<>>,
                    NoResponse, get_float(rec, key, raise_error))
    /\ UNCHANGED <<client, rec, blob, issued>>

GetBool(key, raise_error) ==
    /\ last' = Call("get_bool", [key |-> key, raise_error |-> raise_error], <<>>,
                    NoResponse, get_bool(rec, key, raise_error))
    /\ UNCHANGED <<client, rec, blob, issued>>

NextRecord ==
    \E key \in Keys, raise_error \in BOOLEAN :
        \/ Get(key)
        \/ GetInt(key, raise_error)
        \/ GetFloat(key, raise_error)
        \/ GetBool(key, raise_error)

SpecRecord == InitRecord /\ [][NextRecord]_vars

----------------------------------------------------------------------------
(* client.py: CocoBaseClient *)

NoData == [t |-> "nodata"]
NoJson == [t |-> "nojson"]
\* a JSON array
ListV(items) == [t |-> "array", items |-> items]
\* the parsed body that Response.json() returns
JsonV(j) == [t |-> "json", v |-> j]
QueryBuilder(built) == [t |-> "QueryBuilder", built |-> built]

\* config.BASEURL, an opaque prefix
BASEURL == <<"BASEURL">>

CollectionsPath == <<"/","c","o","l","l","e","c","t","i","o","n","s">>
DocumentsPath == <<"/","d","o","c","u","m","e","n","t","s">>
CollectionParam == <<"?","c","o","l","l","e","c","t","i","o","n","=">>

\* an f-string field {value}: str(value)
format(v) == IF v = None THEN <<"N","o","n","e">> ELSE v.s

\* requests.get / requests.post: the request put on the wire
HttpRequest(method, url, api_key, json) ==
    [method |-> method, url |-> url,
     headers |-> [h \in {"x-api-key"} |-> api_key], json |-> json]

\* CocoBaseClient.__request__(url, method, data); resp is what the service
\* answers if a request reaches it
request(c, url, method, data, resp) ==
    LET u == IF url = <<>> \/ Head(url) # "/" THEN <<"/">> \o url ELSE url IN
    IF method \notin {"get", "post"}
    THEN [exc |-> "ValueError", sent |-> <<>>, resp |-> NoResponse]
    ELSE IF method = "get"
    THEN [exc |-> "none", resp |-> resp,
          sent |-> <<HttpRequest("get", BASEURL \o u, c.api_key, NoData)>>]
    ELSE [exc |-> "none", resp |-> resp,
          sent |-> <<HttpRequest("post", BASEURL \o u, c.api_key, data)>>]

InvalidMethod == Raise("ValueError", <<"Invalid HTTP method. Use HttpMethod.get or HttpMethod.post.">>)
CocobaseError(msg) == Raise("CocobaseError", msg)

\* a call that ended before any dispatch
Early(outcome) == [outcome |-> outcome, sent |-> <<>>, resp |-> NoResponse]
\* a call that went through __request__
After(req, outcome) == [outcome |-> outcome, sent |-> req.sent, resp |-> req.resp]

\* CocoBaseClient.create_collection(collection_name, webhookurl)
create_collection(c, collection_name, webhookurl, resp) ==
    LET data == IF webhookurl # None
                THEN [name |-> collection_name, webhook_url |-> webhookurl]
                ELSE [name |-> collection_name]
        req == request(c, CollectionsPath, "post", data, resp)
    IN
    IF req.exc # "none" THEN After(req, InvalidMethod)
    ELSE IF req.resp.status = 400
    THEN After(req, CocobaseError(<<"Invalid Request: ", req.resp.text>>))
    ELSE IF req.resp.status = 422
    THEN After(req, CocobaseError(<<"A field is missing: ", req.resp.text>>))
    ELSE IF req.resp.status = 500
    THEN After(req, CocobaseError(<<"Internal Server Error">>))
    ELSE IF req.resp.status = 201
    THEN After(req, Return(JsonV(req.resp.json)))
    ELSE After(req, Return(None))

\* update_collection without the check that a field is given
update_collection_unchecked(c, collection_id, collection_name, webhookurl, resp) ==
    LET data == [k \in (IF webhookurl # None THEN {"webhook_url"} ELSE {})
                        \cup (IF collection_name # None THEN {"name"} ELSE {}) |->
                    IF k = "name" THEN collection_name ELSE webhookurl]
        req == request(c, CollectionsPath \o <<"/">> \o format(collection_id), "post",
                       data, resp)
    IN
    IF collection_id = None
    THEN Early(CocobaseError(<<"Collection ID must be provided.">>))
    ELSE IF req.exc # "none" THEN After(req, InvalidMethod)
    ELSE IF req.resp.status = 400
    THEN After(req, CocobaseError(<<"Invalid Request: ", req.resp.text>>))
    ELSE IF req.resp.status = 422
    THEN After(req, CocobaseError(<<"A field is missing: ", req.resp.text>>))
    ELSE IF req.resp.status = 500
    THEN After(req, CocobaseError(<<"Internal Server Error">>))
    ELSE IF req.resp.status = 200
    THEN After(req, Return(JsonV(req.resp.json)))
    ELSE After(req, Return(None))

\* CocoBaseClient.update_collection(collection_id, collection_name, webhookurl)
update_collection(c, collection_id, collection_name, webhookurl, resp) ==
    LET data == [k \in (IF webhookurl # None THEN {"webhook_url"} ELSE {})
                        \cup (IF collection_name # None THEN {"name"} ELSE {}) |->
                    IF k = "name" THEN collection_name ELSE webhookurl]
        req == request(c, CollectionsPath \o <<"/">> \o format(collection_id), "post", data, resp)
    IN
    IF collection_id = None
    THEN Early(CocobaseError(<<"Collection ID must be provided.">>))
    ELSE IF webhookurl = None /\ collection_name = None
    THEN Early(CocobaseError(
            <<"At least one of webhook_url or collection_name must be provided.">>))
    ELSE IF req.exc # "none" THEN After(req, InvalidMethod)
    ELSE IF req.resp.status = 400
    THEN After(req, CocobaseError(<<"Invalid Request: ", req.resp.text>>))
    ELSE IF req.resp.status = 422
    THEN After(req, CocobaseError(<<"A field is missing: ", req.resp.text>>))
    ELSE IF req.resp.status = 500
    THEN After(req, CocobaseError(<<"Internal Server Error">>))
    ELSE IF req.resp.status = 200
    THEN After(req, Return(JsonV(req.resp.json)))
    ELSE After(req, Return(None))

\* CocoBaseClient.delete_collection(collection_id)
delete_collection(c, collection_id, resp) ==
    LET req == request(c, CollectionsPath \o <<"/">> \o format(collection_id), "post", NoData, resp)
    IN
    IF collection_id = None
    THEN Early(CocobaseError(<<"Collection ID must be provided.">>))
    ELSE IF req.exc # "none" THEN After(req, InvalidMethod)
    ELSE IF req.resp.status = 400
    THEN After(req, CocobaseError(<<"Invalid Request: ", req.resp.text>>))
    ELSE IF req.resp.status = 422
    THEN After(req, CocobaseError(<<"A field is missing: ", req.resp.text>>))
    ELSE IF req.resp.status = 500
    THEN After(req, CocobaseError(<<"Internal Server Error">>))
    ELSE IF req.resp.status = 204
    THEN After(req, Return(BoolV(TRUE)))
    ELSE After(req, Return(None))

\* CocoBaseClient.create_document(collection_id, data)
create_document(c, collection_id, data, resp) ==
    LET req == request(c, CollectionsPath \o DocumentsPath \o CollectionParam
                              \o collection_id.s,
                       "post", [data |-> data], resp)
    IN
    IF collection_id = None
    THEN Early(CocobaseError(<<"Collection ID must be provided.">>))
    ELSE IF data.t # "dict"
    THEN Early(CocobaseError(<<"Data must be a dictionary.">>))
    ELSE IF req.exc # "none" THEN After(req, InvalidMethod)
    ELSE IF req.resp.status = 400
    THEN After(req, CocobaseError(<<"Invalid Request: ", req.resp.text>>))
    ELSE IF req.resp.status = 422
    THEN After(req, CocobaseError(<<"A field is missing: ", req.resp.text>>))
    ELSE IF req.resp.status = 500
    THEN After(req, CocobaseError(<<"Internal Server Error">>))
    ELSE IF req.resp.status = 201
    THEN After(req, Return(Record(req.resp.json)))
    ELSE After(req, Return(None))

\* CocoBaseClient.list_documents(collection_id, query)
list_documents(c, collection_id, query, resp) ==
    LET url == IF query # None
               THEN CollectionsPath \o <<"/">> \o format(collection_id) \o DocumentsPath
                        \o <<"?">> \o query.built
               ELSE CollectionsPath \o <<"/">> \o format(collection_id) \o DocumentsPath
        req == request(c, url, "get", NoData, resp)
    IN
    IF collection_id = None
    THEN Early(CocobaseError(<<"Collection ID must be provided.">>))
    ELSE IF query # None /\ query.t # "QueryBuilder"
    THEN Early(CocobaseError(<<"Query must be an instance of QueryBuilder.">>))
    ELSE IF req.exc # "none" THEN After(req, InvalidMethod)
    ELSE IF req.resp.status = 400
    THEN After(req, CocobaseError(<<"Invalid Request: ", req.resp.text>>))
    ELSE IF req.resp.status = 422
    THEN After(req, CocobaseError(<<"A field is missing: ", req.resp.text>>))
    ELSE IF req.resp.status = 500
    THEN After(req, CocobaseError(<<"Internal Server Error">>))
    ELSE IF req.resp.status = 200
    THEN After(req, Return([t |-> "records",
                            items |-> [i \in DOMAIN req.resp.json.items |->
                                            Record(req.resp.json.items[i])]]))
    ELSE After(req, Return(None))

DocumentUrl(collection_id, document_id) ==
    CollectionsPath \o <<"/">> \o format(collection_id) \o DocumentsPath
        \o <<"/">> \o format(document_id)

\* get_document without the check of the document id
get_document_unchecked(c, collection_id, document_id, resp) ==
    LET req == request(c, DocumentUrl(collection_id, document_id), "get", NoData, resp)
    IN
    IF collection_id = None
    THEN Early(CocobaseError(<<"Collection ID must be provided.">>))
    ELSE IF req.exc # "none" THEN After(req, InvalidMethod)
    ELSE IF req.resp.status = 400
    THEN After(req, CocobaseError(<<"Invalid Request: ", req.resp.text>>))
    ELSE IF req.resp.status = 422
    THEN After(req, CocobaseError(<<"A field is missing: ", req.resp.text>>))
    ELSE IF req.resp.status = 500
    THEN After(req, CocobaseError(<<"Internal Server Error">>))
    ELSE IF req.resp.status = 200
    THEN After(req, Return(Record(req.resp.json)))
    ELSE After(req, Return(None))

\* CocoBaseClient.get_document(collection_id, document_id)
get_document(c, collection_id, document_id, resp) ==
    LET req == request(c, DocumentUrl(collection_id, document_id), "get", NoData, resp)
    IN
    IF collection_id = None
    THEN Early(CocobaseError(<<"Collection ID must be provided.">>))
    ELSE IF document_id = None
    THEN Early(CocobaseError(<<"Document ID must be provided.">>))
    ELSE IF req.exc # "none" THEN After(req, InvalidMethod)
    ELSE IF req.resp.status = 400
    THEN After(req, CocobaseError(<<"Invalid Request: ", req.resp.text>>))
    ELSE IF req.resp.status = 422
    THEN After(req, CocobaseError(<<"A field is missing: ", req.resp.text>>))
    ELSE IF req.resp.status = 500
    THEN After(req, CocobaseError(<<"Internal Server Error">>))
    ELSE IF req.resp.status = 200
    THEN After(req, Return(Record(req.resp.json)))
    ELSE After(req, Return(None))

\* CocoBaseClient.delete_document(collection_id, document_id)
delete_document(c, collection_id, document_id, resp) ==
    LET req == request(c, DocumentUrl(collection_id, document_id), "delete", NoData, resp)
    IN
    IF collection_id = None
    THEN Early(CocobaseError(<<"Collection ID must be provided.">>))
    ELSE IF document_id = None
    THEN Early(CocobaseError(<<"Document ID must be provided.">>))
    ELSE IF req.exc # "none" THEN After(req, InvalidMethod)
    ELSE IF req.resp.status = 400
    THEN After(req, CocobaseError(<<"Invalid Request: ", req.resp.text>>))
    ELSE IF req.resp.status = 422
    THEN After(req, CocobaseError(<<"A field is missing: ", req.resp.text>>))
    ELSE IF req.resp.status = 500
    THEN After(req, CocobaseError(<<"Internal Server Error">>))
    ELSE IF req.resp.status = 200 \/ req.resp.status = 204
    THEN After(req, Return(BoolV(TRUE)))
    ELSE After(req, Return(BoolV(FALSE)))

\* CocoBaseClient.update_document(collection_id, document_id, data)
update_document(c, collection_id, document_id, data, resp) ==
    LET req == request(c, DocumentUrl(collection_id, document_id), "patch",
                       [data |-> data], resp)
    IN
    IF collection_id = None
    THEN Early(CocobaseError(<<"Collection ID must be provided.">>))
    ELSE IF document_id = None
    THEN Early(CocobaseError(<<"Document ID must be provided.">>))
    ELSE IF data.t # "dict"
    THEN Early(CocobaseError(<<"Data must be a dictionary.">>))
    ELSE IF req.exc # "none" THEN After(req, InvalidMethod)
    ELSE IF req.resp.status = 400
    THEN After(req, CocobaseError(<<"Invalid Request: ", req.resp.text>>))
    ELSE IF req.resp.status = 422
    THEN After(req, CocobaseError(<<"A field is missing: ", req.resp.text>>))
    ELSE IF req.resp.status = 500
    THEN After(req, CocobaseError(<<"Internal Server Error">>))
    ELSE IF req.resp.status = 200
    THEN After(req, Return(Record(req.resp.json)))
    ELSE After(req, Return(None))

----------------------------------------------------------------------------
(* The client operations, the service's answers, and index-style writes on *)
(* the Record the caller holds                                             *)

CollectionIds == {None, StrV(<<"c","1">>)}
DocumentIds == {None, StrV(<<"d","1">>)}
Names == {None, StrV(<<"n">>)}
Webhooks == {None, StrV(<<"w">>)}
DataArgs == {Nested, DictV([k \in {"a"} |-> IntV(2)])}
Queries == {None, Nested, QueryBuilder(<<"q">>)}
WriteValues == {IntV(2)}

Statuses == {200, 201, 204, 400, 401, 404, 422, 500}
SuccessStatuses == {s \in Statuses : s \div 100 = 2}
Bodies == {"detail", "trace"}

\* a 2xx answer carries the endpoint's JSON, any other one a raw body text
Responses(jsons) ==
    {[status |-> s, text |-> "json", json |-> j] : s \in SuccessStatuses, j \in jsons}
    \cup {[status |-> s, text |-> b, json |-> NoJson] :
            s \in Statuses \ SuccessStatuses, b \in Bodies}

\* stands for the answer while it is not known whether the call dispatches
NotYet == [status |-> 0, text |-> "", json |-> NoJson]

FullDocument == Document(TRUE, TRUE, TRUE, DictV([k \in {"a"} |-> IntV(1)]))
BareDocument == Document(FALSE, FALSE, FALSE, EmptyDict)

CollectionJsons == {DictV([id |-> StrV(<<"c","1">>), name |-> StrV(<<"n">>)])}
DocumentJsons == {FullDocument, BareDocument}
ListJsons == {ListV(<<>>), ListV(<<FullDocument, BareDocument>>)}

Init ==
    /\ client = TheClient
    /\ rec = NoRecord
    /\ blob = NoBlob
    /\ issued = 0
    /\ last = Call("CocoBaseClient", [api_key |-> TheClient.api_key], <<>>,
                   NoResponse, Return(None))

\* a client call: what it sent is counted, a Record it returned is kept by the caller
ClientCall(op, args, r) ==
    /\ issued < MaxRequests
    /\ last' = Call(op, args, r.sent, r.resp, r.outcome)
    /\ issued' = issued + Len(r.sent)
    /\ IF r.outcome.kind = "return" /\ r.outcome.val.t = "record"
       THEN rec' = r.outcome.val /\ blob' = r.resp.json
       ELSE IF r.outcome.kind = "return" /\ r.outcome.val.t = "records"
                /\ r.outcome.val.items # <<>>
       THEN rec' = r.outcome.val.items[1] /\ blob' = r.resp.json.items[1]
       ELSE UNCHANGED <<rec, blob>>
    /\ UNCHANGED client

\* the service answers the calls that dispatch, with any answer of its endpoint
Answers(dispatched, jsons) ==
    IF dispatched = <<>> THEN {NotYet} ELSE Responses(jsons)

CreateCollection ==
    \E name \in Names \ {None}, webhookurl \in Webhooks :
    \E resp \in Answers(create_collection(client, name, webhookurl, NotYet).sent,
                        CollectionJsons) :
        ClientCall("create_collection",
                   [collection_name |-> name, webhookurl |-> webhookurl],
                   create_collection(client, name, webhookurl, resp))

UpdateCollection ==
    \E id \in CollectionIds, name \in Names, webhookurl \in Webhooks :
    \E resp \in Answers(update_collection(client, id, name, webhookurl, NotYet).sent,
                        CollectionJsons) :
        ClientCall("update_collection",
                   [collection_id |-> id, collection_name |-> name,
                    webhookurl |-> webhookurl],
                   update_collection(client, id, name, webhookurl, resp))

DeleteCollection ==
    \E id \in CollectionIds :
    \E resp \in Answers(delete_collection(client, id, NotYet).sent, {NoJson}) :
        ClientCall("delete_collection", [collection_id |-> id],
                   delete_collection(client, id, resp))

CreateDocument ==
    \E id \in CollectionIds, data \in DataArgs :
    \E resp \in Answers(create_document(client, id, data, NotYet).sent, DocumentJsons) :
        ClientCall("create_document", [collection_id |-> id, data |-> data],
                   create_document(client, id, data, resp))

ListDocuments ==
    \E id \in CollectionIds, query \in Queries :
    \E resp \in Answers(list_documents(client, id, query, NotYet).sent, ListJsons) :
        ClientCall("list_documents", [collection_id |-> id, query |-> query],
                   list_documents(client, id, query, resp))

GetDocument ==
    \E id \in CollectionIds, doc \in DocumentIds :
    \E resp \in Answers(get_document(client, id, doc, NotYet).sent, DocumentJsons) :
        ClientCall("get_document", [collection_id |-> id, document_id |-> doc],
                   get_document(client, id, doc, resp))

DeleteDocument ==
    \E id \in CollectionIds, doc \in DocumentIds :
    \E resp \in Answers(delete_document(client, id, doc, NotYet).sent, {NoJson}) :
        ClientCall("delete_document", [collection_id |-> id, document_id |-> doc],
                   delete_document(client, id, doc, resp))

UpdateDocument ==
    \E id \in CollectionIds, doc \in DocumentIds, data \in DataArgs :
    \E resp \in Answers(update_document(client, id, doc, data, NotYet).sent,
                        DocumentJsons) :
        ClientCall("update_document",
                   [collection_id |-> id, document_id |-> doc, data |-> data],
                   update_document(client, id, doc, data, resp))

\* rec[key] = value
SetItem ==
    \E key \in Keys, value \in WriteValues :
        /\ rec # NoRecord
        /\ rec' = setitem(rec, key, value)
        /\ last' = Call("setitem", [key |-> key, value |-> value], <<>>,
                        NoResponse, Return(None))
        /\ UNCHANGED <<client, blob, issued>>

\* del rec[key]
DelItem ==
    \E key \in Keys :
        /\ rec # NoRecord
        /\ rec' = delitem(rec, key).rec
        /\ last' = Call("delitem", [key |-> key], <<>>, NoResponse,
                        delitem(rec, key).outcome)
        /\ UNCHANGED <<client, blob, issued>>

Next ==
    \/ CreateCollection
    \/ UpdateCollection
    \/ DeleteCollection
    \/ CreateDocument
    \/ ListDocuments
    \/ GetDocument
    \/ DeleteDocument
    \/ UpdateDocument
    \/ SetItem
    \/ DelItem

Spec == Init /\ [][Next]_vars

----------------------------------------------------------------------------
(* Claims about Record *)

IsGetter(op) == op \in {"get_int", "get_float", "get_bool"}

\* the value the last getter call read
StoredValue == DictGet(rec.data, last.args.key, None)

\* C8: in non-strict mode get_int, get_float and get_bool never raise, whatever
\* is stored under the key (missing, null, string, number, boolean, nested
\* structure), and a failed conversion yields the absent result (None).
C8_NonStrictNeverRaises ==
    (IsGetter(last.op) /\ ~last.args.raise_error) =>
        /\ last.outcome.kind = "return"
        /\ (last.op = "get_int" /\ ~int(StoredValue).ok) => last.outcome = Return(None)
        /\ (last.op = "get_float" /\ ~float(StoredValue).ok) => last.outcome = Return(None)
        /\ (last.op = "get_bool" /\ StoredValue.t \in {"list", "null"})
                => last.outcome = Return(None)

\* a non-strict getter has met a nested structure, which int() rejects with TypeError
C8_Witness ==
    /\ last.op = "get_int"
    /\ ~last.args.raise_error
    /\ StoredValue = Nested
    /\ last.outcome = Return(None)

\* the number a value is when "tried as a number".  Where the wording leaves a
\* choice, the reading closest to the code is taken: a str is read as an integer
\* literal, and inf and nan count as no number.
AsNumber(v) ==
    CASE v.t = "int" -> Ok(v)
      [] v.t = "float" /\ v.sp = "fin" -> Ok(v)
      [] v.t = "str" -> IntOfStr(v.s)
      [] OTHER -> Fail("TypeError")

NonZero(v) == IF v.t = "int" THEN v.n # 0 ELSE v.m # 0

\* the coercion policy of getBool as the specification words it; the words are
\* matched ignoring case and, as in the code, surrounding whitespace
GetBoolPolicy(value, strict) ==
    IF value = None THEN Return(None)
    ELSE IF value.t = "bool" THEN Return(value)
    ELSE IF value.t = "str" /\ lower(strip(value.s)) \in TrueWords
    THEN Return(BoolV(TRUE))
    ELSE IF value.t = "str" /\ lower(strip(value.s)) \in FalseWords
    THEN Return(BoolV(FALSE))
    ELSE IF AsNumber(value).ok THEN Return(BoolV(NonZero(AsNumber(value).v)))
    ELSE IF strict THEN Raise("TypeError", <<>>)
    ELSE Return(None)

\* C7: get_bool follows the priority order: a native boolean as is; a string
\* equal, ignoring case, to true/1/yes is true and to false/0/no is false; any
\* other value is tried as a number (non-zero true, zero false); a value that
\* fits none of these is absent in non-strict mode and raises in strict mode.
C7_GetBoolPolicy ==
    last.op = "get_bool" =>
        LET want == GetBoolPolicy(StoredValue, last.args.raise_error) IN
        /\ last.outcome.kind = want.kind
        /\ want.kind = "return" => last.outcome.val = want.val
        /\ want.kind = "raise" => last.outcome.exc = want.exc

\* C9: a Record constructed from a document JSON returns through get(key), for
\* every key of the document's data mapping, the original value, whether or not
\* collection_id and created_at are present; a document with no data mapping
\* yields a Record whose fields are present and empty.
C9_RoundTrip ==
    /\ (last.op = "get" /\ "data" \in DOMAIN blob.d
            /\ last.args.key \in DOMAIN blob.d["data"].d)
            => last.outcome = Return(blob.d["data"].d[last.args.key])
    /\ (last.op \in {"Record", "get"} /\ "data" \notin DOMAIN blob.d)
            => rec.data = EmptyDict /\ DOMAIN rec.data.d = {}

\* get has read back a stored value of a document with neither collection_id
\* nor created_at
C9_Witness ==
    /\ last.op = "get"
    /\ "data" \in DOMAIN blob.d
    /\ last.args.key \in DOMAIN blob.d["data"].d
    /\ blob.d["data"].d[last.args.key] = StrV(<<"Y","E","S">>)
    /\ "collection_id" \notin DOMAIN blob.d
    /\ "created_at" \notin DOMAIN blob.d

----------------------------------------------------------------------------
(* Claims about CocoBaseClient *)

ClientOps ==
    {"create_collection", "update_collection", "delete_collection", "create_document",
     "list_documents", "get_document", "delete_document", "update_document"}

TakesCollectionId == ClientOps \ {"create_collection"}
TakesDocumentId == {"get_document", "delete_document", "update_document"}
TakesData == {"create_document", "update_document"}

\* a required identifier of the last call is absent
IdentifierAbsent ==
    \/ last.op \in TakesCollectionId /\ last.args.collection_id = None
    \/ last.op \in TakesDocumentId /\ last.args.document_id = None

\* the inputs of the last call pass the validation the specification states
InputsValid ==
    /\ last.op \in ClientOps
    /\ ~IdentifierAbsent
    /\ last.op \in TakesData => last.args.data.t = "dict"
    /\ last.op = "update_collection" =>
            last.args.collection_name # None \/ last.args.webhookurl # None
    /\ last.op = "list_documents" =>
            last.args.query = None \/ last.args.query.t = "QueryBuilder"

\* the fixed mapping from operation to HTTP method
MethodOf(op) ==
    CASE op \in {"get_document", "list_documents"} -> "get"
      [] op = "update_document" -> "patch"
      [] op = "delete_document" -> "delete"
      [] OTHER -> "post"

Answered == last.resp # NoResponse

\* C1: delete_document with both ids present never raises: it returns true on
\* 200 or 204 and false on an answer that is not a success (404 for example).
C1_DeleteDocumentNeverRaises ==
    (last.op = "delete_document" /\ ~IdentifierAbsent) =>
        /\ last.outcome.kind = "return"
        /\ Answered
        /\ last.resp.status \in {200, 204} => last.outcome.val = BoolV(TRUE)
        /\ last.resp.status \notin SuccessStatuses => last.outcome.val = BoolV(FALSE)

\* C2: a call whose inputs pass validation issues exactly one HTTP request, with
\* the method of the fixed mapping (GET reads and lists, POST creates and
\* collection mutations, PATCH document updates, DELETE document removal).
C2_OneRequestPerCall ==
    InputsValid =>
        /\ Len(last.sent) = 1
        /\ last.sent[1].method = MethodOf(last.op)

\* C3: for every operation but delete_document, an answer whose status is not
\* 2xx and not 400, 422 or 500 makes the call raise; it never returns normally.
C3_UnexpectedStatusRaises ==
    (/\ last.op \in ClientOps \ {"delete_document"}
     /\ Answered
     /\ last.resp.status \notin SuccessStatuses \cup {400, 422, 500})
        => last.outcome.kind = "raise"

\* C4: a call in which a required identifier (collection id, or document id where
\* the operation takes one) is absent fails with the client's own error and
\* issues no HTTP request.
C4_AbsentIdentifierFailsFast ==
    IdentifierAbsent =>
        /\ last.outcome.kind = "raise"
        /\ last.outcome.exc = "CocobaseError"
        /\ last.outcome.msg \in {<<"Collection ID must be provided.">>,
                                 <<"Document ID must be provided.">>}
        /\ last.sent = <<>>
        /\ ~Answered

\* get_document with a collection id and no document id has been refused
C4_Witness ==
    /\ last.op = "get_document"
    /\ last.args.collection_id # None
    /\ last.args.document_id = None
    /\ last.outcome = CocobaseError(<<"Document ID must be provided.">>)
    /\ last.sent = <<>>

\* C5: update_collection with both name and webhook url omitted fails with the
\* client's own error, whatever the collection id, and issues no HTTP request.
C5_UpdateCollectionNeedsAField ==
    (/\ last.op = "update_collection"
     /\ last.args.collection_name = None
     /\ last.args.webhookurl = None)
        => /\ last.outcome.kind = "raise"
           /\ last.outcome.exc = "CocobaseError"
           /\ last.sent = <<>>
           /\ ~Answered

\* update_collection with a collection id and neither field has been refused
C5_Witness ==
    /\ last.op = "update_collection"
    /\ last.args.collection_id # None
    /\ last.args.collection_name = None
    /\ last.args.webhookurl = None
    /\ last.outcome.kind = "raise"
    /\ last.sent = <<>>

\* C6: every error raised because of the status of an answer (400, 422, 500), in
\* every operation, carries the raw body text of that answer.
C6_StatusErrorsCarryBody ==
    (last.op \in ClientOps /\ Answered /\ last.resp.status \in {400, 422, 500}) =>
        /\ last.outcome.kind = "raise"
        /\ \E i \in DOMAIN last.outcome.msg : last.outcome.msg[i] = last.resp.text

IndexOps == {"setitem", "delitem"}

\* C10: an index-style write or delete on a Record issues no HTTP request and
\* leaves the Record's id, collectionId and createdAt as they were; only calls on
\* the client issue requests.
C10_WritesAreLocal ==
    [][/\ last'.op \in IndexOps =>
            /\ issued' = issued
            /\ last'.sent = <<>>
            /\ rec'.id = rec.id
            /\ rec'.collectionId = rec.collectionId
            /\ rec'.createdAt = rec.createdAt
            /\ rec'.collection = rec.collection
       /\ issued' # issued => last'.op \in ClientOps]_vars

\* a write has changed a field of a Record fetched by an earlier request
C10_Witness ==
    /\ last.op = "setitem"
    /\ issued = 1
    /\ DictGet(rec.data, "a", None) = IntV(2)
    /\ DictGet(DictGet(blob, "data", EmptyDict), "a", None) = IntV(1)
    /\ rec.id = DictGet(blob, "id", None)

============================================================================
